---- MODULE Spec2Model ----
(***************************************************************************)
(* Model of reqx: the Response wrapper (lazy, once-only body decoding) and *)
(* the RequestBuilder (accumulated configuration serialised by Do).        *)
(*                                                                         *)
(* Bytes are small integers.  The three compressed formats are modelled by *)
(* toy framings that keep what the decoders of the standard library check: *)
(*   raw deflate : literals, closed by EndOfStream; data after it ignored  *)
(*   zlib        : ZlibMagic, a deflate stream, one checksum byte          *)
(*   gzip        : one or more members GzipMagic, deflate stream, checksum *)
(* Header values are sequences of one-character strings so that TrimSpace, *)
(* ToLower and Index are computed, not assumed.                            *)
(***************************************************************************)
EXTENDS Integers, Sequences, FiniteSets, TLC

\* ------------------------------------------------------------------ bounds
MaxRawLen == 4
NumCallers == 2
MaxCalls == 2

\* ------------------------------------------------------------- byte level
Byte == 0 .. 3
GzipMagic == 1
ZlibMagic == 2
EndOfStream == 3

RECURSIVE SeqsUpTo(_)
SeqsUpTo(n) ==
    IF n = 0 THEN {<<>>}
    ELSE LET S == SeqsUpTo(n - 1)
         IN  S \cup {Append(s, b) : s \in {t \in S : Len(t) = n - 1}, b \in Byte}

RECURSIVE SumBytes(_)
SumBytes(s) == IF s = <<>> THEN 0 ELSE Head(s) + SumBytes(Tail(s))

Checksum(p) == SumBytes(p) % Cardinality(Byte)

\* index (1-based) of the first EndOfStream in s, 0 when there is none
RECURSIVE FirstEnd(_, _)
FirstEnd(s, i) ==
    IF i > Len(s) THEN 0
    ELSE IF s[i] = EndOfStream THEN i
    ELSE FirstEnd(s, i + 1)

\* the deflate decoder shared by flate, zlib and gzip: literals up to the
\* end-of-stream marker; without a marker the stream ends unexpectedly
Inflate(s) ==
    LET e == FirstEnd(s, 1)
    IN  IF e = 0 THEN [ok |-> FALSE, out |-> <<>>, rest |-> <<>>]
        ELSE [ok |-> TRUE, out |-> SubSeq(s, 1, e - 1), rest |-> SubSeq(s, e + 1, Len(s))]

\* flate.NewReader + io.ReadAll
FlateReadAll(rw) ==
    LET d == Inflate(rw) IN [ok |-> d.ok, out |-> d.out]

\* zlib.NewReader: the header is checked when the reader is made
ZlibNewReader(rw) ==
    IF Len(rw) >= 1 /\ rw[1] = ZlibMagic
    THEN [ok |-> TRUE, rest |-> Tail(rw)]
    ELSE [ok |-> FALSE, rest |-> <<>>]

\* io.ReadAll on a zlib reader: deflate stream, then the checksum
ZlibReadAll(rest) ==
    LET d == Inflate(rest)
    IN  IF ~d.ok THEN [ok |-> FALSE, out |-> <<>>]
        ELSE IF Len(d.rest) >= 1 /\ d.rest[1] = Checksum(d.out)
             THEN [ok |-> TRUE, out |-> d.out]
             ELSE [ok |-> FALSE, out |-> <<>>]

\* gzip.NewReader: the first member's header is checked when the reader is made
GzipNewReader(rw) ==
    IF Len(rw) >= 1 /\ rw[1] = GzipMagic
    THEN [ok |-> TRUE, rest |-> Tail(rw)]
    ELSE [ok |-> FALSE, rest |-> <<>>]

\* io.ReadAll on a gzip reader: deflate stream, checksum, then either the end
\* of the input or another member (multistream)
RECURSIVE GzipReadAll(_)
GzipReadAll(rest) ==
    LET d == Inflate(rest)
    IN  IF ~d.ok THEN [ok |-> FALSE, out |-> <<>>]
        ELSE IF ~(Len(d.rest) >= 1 /\ d.rest[1] = Checksum(d.out))
             THEN [ok |-> FALSE, out |-> <<>>]
        ELSE LET after == Tail(d.rest)
             IN  IF after = <<>> THEN [ok |-> TRUE, out |-> d.out]
                 ELSE LET h == GzipNewReader(after)
                          n == GzipReadAll(h.rest)
                      IN  IF h.ok /\ n.ok
                          THEN [ok |-> TRUE, out |-> d.out \o n.out]
                          ELSE [ok |-> FALSE, out |-> <<>>]

\* what the servers write: gzip.NewWriter / zlib.NewWriter / flate.NewWriter
FlateEncode(p) == p \o <<EndOfStream>>
ZlibEncode(p) == <<ZlibMagic>> \o FlateEncode(p) \o <<Checksum(p)>>
GzipEncode(p) == <<GzipMagic>> \o FlateEncode(p) \o <<Checksum(p)>>

\* payloads a deflate stream can carry in this framing
IsPayload(p) == \A i \in DOMAIN p : p[i] # EndOfStream

\* ----------------------------------------------------------- string level
UpperChars == <<"G", "Z", "I", "P", "D", "E", "F", "L", "A", "T", "B", "R">>
LowerChars == <<"g", "z", "i", "p", "d", "e", "f", "l", "a", "t", "b", "r">>

LowerChar(c) ==
    IF \E i \in DOMAIN UpperChars : UpperChars[i] = c
    THEN LowerChars[CHOOSE i \in DOMAIN UpperChars : UpperChars[i] = c]
    ELSE c

\* strings.ToLower
ToLower(s) == [i \in DOMAIN s |-> LowerChar(s[i])]

RECURSIVE TrimLeft(_)
TrimLeft(s) == IF s # <<>> /\ Head(s) = " " THEN TrimLeft(Tail(s)) ELSE s

RECURSIVE TrimRight(_)
TrimRight(s) ==
    IF s # <<>> /\ s[Len(s)] = " " THEN TrimRight(SubSeq(s, 1, Len(s) - 1)) ELSE s

\* strings.TrimSpace
TrimSpace(s) == TrimRight(TrimLeft(s))

\* strings.Index(s, ","): 0-based position of the first comma, -1 when none
RECURSIVE IndexFrom(_, _)
IndexFrom(s, i) ==
    IF i > Len(s) THEN -1
    ELSE IF s[i] = "," THEN i - 1
    ELSE IndexFrom(s, i + 1)

IndexComma(s) == IndexFrom(s, 1)

Gzip == <<"g", "z", "i", "p">>
Deflate == <<"d", "e", "f", "l", "a", "t", "e">>
Br == <<"b", "r">>

\* the values of the Content-Encoding header the model draws from
\* (the empty string is what Header.Get gives for an absent header)
ContentEncodings ==
    { <<>>,
      Gzip,
      <<" ", "G", "Z", "i", "p", " ">>,
      Deflate,
      <<"D", "e", "f", "l", "a", "t", "e", " ">>,
      Br,
      <<"i", "d">>,
      <<"g", "z", "i", "p", ",", " ", "b", "r">>,
      <<"b", "r", ",", "g", "z", "i", "p">> }

\* the encoding cacheBody switches on
enc(header) ==
    LET encodings == TrimSpace(header)
        lower == ToLower(encodings)
        i == IndexComma(lower)
    IN  IF i >= 0 THEN TrimSpace(SubSeq(lower, 1, i)) ELSE lower

\* ------------------------------------------------------------ the Response
Callers == 1 .. NumCallers
Nil == "nil"
ErrReadRaw == "read raw body failed"
ErrGzipNewReader == "gzip.NewReader failed"
ErrReadGzip == "read gzip body failed"
ErrReadZlib == "read deflate(zlib) body failed"
ErrReadFlate == "read deflate(raw) body failed"
ErrJson == "json: cannot unmarshal"
NoRet == [op |-> "none", body |-> <<>>, err |-> Nil, unmarshal |-> FALSE]
NoFirst == [seen |-> FALSE, body |-> <<>>, err |-> Nil]

VARIABLES
    r,          \* the Response: resp (the *http.Response), body, readErr, once
    raw,        \* cacheBody's local: the bytes read from the stream
    pc,         \* where each caller is inside its body accessor
    op,         \* the accessor each caller is running
    ret,        \* what each caller's last accessor returned
    callsLeft,  \* accessor calls each caller may still start
    reads,      \* times the body stream was read with io.ReadAll
    closes,     \* times the body stream was closed
    first,      \* what the first accessor to return observed
    fs,         \* the files os.WriteFile has written: name to content
    tf          \* each caller's ToFile: its argument and what it returned

toFileVars == <<fs, tf>>
respVars == <<r, raw, pc, op, ret, callsLeft, reads, closes, first, toFileVars>>

\* the file name ToFile passes to os.WriteFile
ContinueHtml == "continue.html"
\* the file names the model passes to ToFile
Filenames == {"out.html"}
NoFiles == [name \in {} |-> <<>>]
ErrWriteFile == "os.WriteFile failed"
NoToFile == [filename |-> "", returned |-> FALSE, err |-> Nil, wrote |-> FALSE]

VARIABLES
    rb,         \* the RequestBuilder: method, url, params, headers, body, flags, files, formFields
    last,       \* what Do returned and the request it handed to the client,
                \* while Do is the latest call on the builder
    lastMode,   \* the body mode of the last body-configuring call (a Form
                \* call that gives no field configures nothing)
    callerCT,   \* the Content-Type as the caller last set it with Header
    ops,        \* calls made on the builder so far
    prev,       \* the Do before the latest one, while no other call came
                \* between the two
    open        \* files File has opened and nothing has closed

builderVars == <<rb, last, lastMode, callerCT, ops, prev, open>>

VARIABLES
    globalClient,       \* the package variable globalClient
    globalClientOnce,   \* the package variable globalClientOnce: done and its mutex
    created,            \* http.Client values getGlobalClient has created
    cpc,                \* where each goroutine is in the client lines of Do
    clientArg,          \* the variadic client argument of each goroutine's Do
    c,                  \* Do's local c in each goroutine
    used,               \* the client each goroutine's last Do called c.Do on
    doLeft              \* Do calls each goroutine may still start

clientVars == <<globalClient, globalClientOnce, created, cpc, clientArg, c, used, doLeft>>

\* streams and headers run under every interleaving of the callers
RawSamples == {<<0>>, GzipEncode(<<0>>), <<ZlibMagic, 0, EndOfStream>>}
EncodingSamples == {<<" ", "G", "Z", "i", "p", " ">>, Deflate}

Response(stream, failing, header, uncompressed) ==
    [ resp |-> [ Body |-> stream, BodyErr |-> failing, Consumed |-> FALSE,
                 Closed |-> FALSE, ContentEncoding |-> header,
                 Uncompressed |-> uncompressed ],
      body |-> <<>>,
      readErr |-> Nil,
      once |-> [done |-> FALSE, m |-> 0] ]

InitResponseWith(streams, headers, transports, budget) ==
    /\ \E stream \in streams, failing \in BOOLEAN,
          header \in headers, uncompressed \in transports :
            r = Response(stream, failing, header, uncompressed)
    /\ raw = <<>>
    /\ pc = [p \in Callers |-> "idle"]
    /\ op = [p \in Callers |-> "none"]
    /\ ret = [p \in Callers |-> NoRet]
    /\ callsLeft = budget
    /\ reads = 0
    /\ closes = 0
    /\ first = NoFirst
    /\ fs = NoFiles
    /\ tf = [p \in Callers |-> NoToFile]

\* a caller enters Bytes, String or Json; each starts with r.cacheBody()
Call(p, o) ==
    /\ pc[p] = "idle"
    /\ callsLeft[p] > 0
    /\ callsLeft' = [callsLeft EXCEPT ![p] = @ - 1]
    /\ op' = [op EXCEPT ![p] = o]
    /\ pc' = [pc EXCEPT ![p] = "fast"]
    /\ UNCHANGED <<r, raw, ret, reads, closes, first, toFileVars, builderVars, clientVars>>

\* sync.Once.Do, fast path: done already set, return at once
OnceFast(p) ==
    /\ pc[p] = "fast"
    /\ pc' = [pc EXCEPT ![p] = IF r.once.done THEN "ret" ELSE "lock"]
    /\ UNCHANGED <<r, raw, op, ret, callsLeft, reads, closes, first, toFileVars, builderVars, clientVars>>

\* sync.Once.doSlow: o.m.Lock()
OnceLock(p) ==
    /\ pc[p] = "lock"
    /\ r.once.m = 0
    /\ r' = [r EXCEPT !.once.m = p]
    /\ pc' = [pc EXCEPT ![p] = "slow"]
    /\ UNCHANGED <<raw, op, ret, callsLeft, reads, closes, first, toFileVars, builderVars, clientVars>>

\* a variant of doSlow that runs f without looking at done again
OnceSlowNoRecheck(p) ==
    /\ pc[p] = "slow"
    /\ pc' = [pc EXCEPT ![p] = "read"]
    /\ UNCHANGED <<r, raw, op, ret, callsLeft, reads, closes, first, toFileVars, builderVars, clientVars>>

\* sync.Once.doSlow: under the lock, run f only if done is still unset
OnceSlow(p) ==
    /\ pc[p] = "slow"
    /\ IF r.once.done
       THEN /\ r' = [r EXCEPT !.once.m = 0]
            /\ pc' = [pc EXCEPT ![p] = "ret"]
       ELSE /\ r' = r
            /\ pc' = [pc EXCEPT ![p] = "read"]
    /\ UNCHANGED <<raw, op, ret, callsLeft, reads, closes, first, toFileVars, builderVars, clientVars>>

\* io.ReadAll(reader) on a response body in the given state
ReadAll(b) ==
    IF b.Closed THEN [ok |-> FALSE, data |-> <<>>]
    ELSE IF b.Consumed THEN [ok |-> TRUE, data |-> <<>>]
    ELSE IF b.BodyErr THEN [ok |-> FALSE, data |-> <<>>]
    ELSE [ok |-> TRUE, data |-> b.Body]

\* cacheBody: raw, err := io.ReadAll(reader)
ReadRaw(p) ==
    /\ pc[p] = "read"
    /\ reads' = reads + 1
    /\ LET got == ReadAll(r.resp)
       IN  IF got.ok
           THEN /\ raw' = got.data
                /\ r' = [r EXCEPT !.resp.Consumed = TRUE]
                /\ pc' = [pc EXCEPT ![p] = "decode"]
           ELSE /\ raw' = raw
                /\ r' = [r EXCEPT !.resp.Consumed = TRUE, !.readErr = ErrReadRaw]
                /\ pc' = [pc EXCEPT ![p] = "close"]
    /\ UNCHANGED <<op, ret, callsLeft, closes, first, toFileVars, builderVars, clientVars>>

\* the results of the decoding branches: the new r.body and r.readErr
Decoded(b, e) == [body |-> b, readErr |-> e]

\* a variant of the gzip branch that drops the raw bytes on failure
DecodeGzipDropsRaw(rw) ==
    LET gr == GzipNewReader(rw)
        dec == GzipReadAll(gr.rest)
    IN  IF ~gr.ok THEN Decoded(<<>>, ErrGzipNewReader)
        ELSE IF ~dec.ok THEN Decoded(<<>>, ErrReadGzip)
        ELSE Decoded(dec.out, Nil)

\* case "gzip"
DecodeGzip(rw) ==
    LET gr == GzipNewReader(rw)
        dec == GzipReadAll(gr.rest)
    IN  IF ~gr.ok THEN Decoded(rw, ErrGzipNewReader)
        ELSE IF ~dec.ok THEN Decoded(rw, ErrReadGzip)
        ELSE Decoded(dec.out, Nil)

\* case "deflate", first attempt: zlib.  done tells whether the branch returned
DecodeZlib(rw, cur) ==
    LET zr == ZlibNewReader(rw)
        dec == ZlibReadAll(zr.rest)
    IN  IF zr.ok /\ dec.ok THEN [done |-> TRUE, body |-> dec.out, readErr |-> Nil]
        ELSE IF zr.ok THEN [done |-> FALSE, body |-> cur.body, readErr |-> ErrReadZlib]
        ELSE [done |-> FALSE, body |-> cur.body, readErr |-> cur.readErr]

\* a variant of the fallback that keeps the error the zlib attempt recorded
DecodeFlateKeepsErr(rw, cur) ==
    LET dec == FlateReadAll(rw)
    IN  IF dec.ok
        THEN Decoded(dec.out, cur.readErr)
        ELSE Decoded(rw, ErrReadFlate)

\* case "deflate", fallback: raw deflate on the same raw bytes
DecodeFlate(rw, cur) ==
    LET dec == FlateReadAll(rw)
    IN  IF dec.ok
        THEN Decoded(dec.out, Nil)
        ELSE Decoded(rw, ErrReadFlate)

\* case "br": io.ReadAll over a reader of the bytes already in memory
DecodeBr(rw) == Decoded(rw, Nil)

\* a variant of the default branch that refuses an encoding it does not know
DecodeDefaultRejects(rw) == Decoded(rw, "unsupported content-encoding")

\* default: no encoding, or an unknown one
DecodeDefault(rw) == Decoded(rw, Nil)

\* a variant of the encoding switch that compares the header as written
SwitchOnHeader(header) == header

\* the value the switch of cacheBody compares
SwitchOn(header) == enc(header)

\* cacheBody after the read: the Uncompressed shortcut, then the switch; the
\* deflate case only makes its zlib attempt here
DecodeBody(p) ==
    /\ pc[p] = "decode"
    /\ LET e == SwitchOn(r.resp.ContentEncoding)
       IN  IF r.resp.Uncompressed
           THEN /\ r' = [r EXCEPT !.body = raw, !.readErr = Nil]
                /\ pc' = [pc EXCEPT ![p] = "close"]
           ELSE IF e = Gzip
           THEN /\ r' = [r EXCEPT !.body = DecodeGzip(raw).body,
                                  !.readErr = DecodeGzip(raw).readErr]
                /\ pc' = [pc EXCEPT ![p] = "close"]
           ELSE IF e = Deflate
           THEN LET z == DecodeZlib(raw, r)
                IN  /\ r' = [r EXCEPT !.body = z.body, !.readErr = z.readErr]
                    /\ pc' = [pc EXCEPT ![p] = IF z.done THEN "close" ELSE "fallback"]
           ELSE IF e = Br
           THEN /\ r' = [r EXCEPT !.body = DecodeBr(raw).body,
                                  !.readErr = DecodeBr(raw).readErr]
                /\ pc' = [pc EXCEPT ![p] = "close"]
           ELSE /\ r' = [r EXCEPT !.body = DecodeDefault(raw).body,
                                  !.readErr = DecodeDefault(raw).readErr]
                /\ pc' = [pc EXCEPT ![p] = "close"]
    /\ UNCHANGED <<raw, op, ret, callsLeft, reads, closes, first, toFileVars, builderVars, clientVars>>

\* cacheBody, case "deflate" after the zlib attempt failed
DecodeFallback(p) ==
    /\ pc[p] = "fallback"
    /\ r' = [r EXCEPT !.body = DecodeFlate(raw, r).body,
                      !.readErr = DecodeFlate(raw, r).readErr]
    /\ pc' = [pc EXCEPT ![p] = "close"]
    /\ UNCHANGED <<raw, op, ret, callsLeft, reads, closes, first, toFileVars, builderVars, clientVars>>

\* the deferred reader.Close() of cacheBody
CloseBody(p) ==
    /\ pc[p] = "close"
    /\ closes' = closes + 1
    /\ r' = [r EXCEPT !.resp.Closed = TRUE]
    /\ pc' = [pc EXCEPT ![p] = "finish"]
    /\ UNCHANGED <<raw, op, ret, callsLeft, reads, first, toFileVars, builderVars, clientVars>>

\* a variant of the return of doSlow that unlocks without storing done
OnceFinishLeavesUndone(p) ==
    /\ pc[p] = "finish"
    /\ r' = [r EXCEPT !.once = [done |-> FALSE, m |-> 0]]
    /\ pc' = [pc EXCEPT ![p] = "ret"]
    /\ UNCHANGED <<raw, op, ret, callsLeft, reads, closes, first, toFileVars, builderVars, clientVars>>

\* sync.Once.doSlow returning: the deferred done.Store(1) and m.Unlock()
OnceFinish(p) ==
    /\ pc[p] = "finish"
    /\ r' = [r EXCEPT !.once = [done |-> TRUE, m |-> 0]]
    /\ pc' = [pc EXCEPT ![p] = "ret"]
    /\ UNCHANGED <<raw, op, ret, callsLeft, reads, closes, first, toFileVars, builderVars, clientVars>>

\* what Bytes, String and Json return once cacheBody is back; jsonErr is the
\* verdict of json.Unmarshal on the cached bytes
Returned(o, jsonErr) ==
    IF o = "Json"
    THEN IF r.readErr # Nil
         THEN [op |-> o, body |-> <<>>, err |-> r.readErr, unmarshal |-> FALSE]
         ELSE [op |-> o, body |-> r.body, err |-> jsonErr, unmarshal |-> TRUE]
    ELSE [op |-> o, body |-> r.body, err |-> r.readErr, unmarshal |-> FALSE]

\* the accessor returns to its caller
Return(p) ==
    /\ pc[p] = "ret"
    /\ \E jsonErr \in {Nil, ErrJson} :
          /\ (r.body = <<>> => jsonErr = ErrJson)
          /\ ret' = [ret EXCEPT ![p] = Returned(op[p], jsonErr)]
    /\ first' = IF first.seen THEN first
                ELSE [seen |-> TRUE, body |-> r.body, err |-> r.readErr]
    /\ pc' = [pc EXCEPT ![p] = "idle"]
    /\ UNCHANGED <<r, raw, op, callsLeft, reads, closes, toFileVars, builderVars, clientVars>>

\* a caller enters ToFile, which does not call r.cacheBody()
ToFile(p, filename) ==
    /\ pc[p] = "idle"
    /\ callsLeft[p] > 0
    /\ callsLeft' = [callsLeft EXCEPT ![p] = @ - 1]
    /\ op' = [op EXCEPT ![p] = "ToFile"]
    /\ tf' = [tf EXCEPT ![p] = [NoToFile EXCEPT !.filename = filename]]
    /\ pc' = [pc EXCEPT ![p] = "tofile"]
    /\ UNCHANGED <<r, raw, ret, reads, closes, first, fs, builderVars, clientVars>>

\* ToFile: if r.readErr != nil { return r.readErr }, read outside the Once
ToFileCheck(p) ==
    /\ pc[p] = "tofile"
    /\ IF r.readErr # Nil
       THEN /\ tf' = [tf EXCEPT ![p].returned = TRUE, ![p].err = r.readErr]
            /\ pc' = [pc EXCEPT ![p] = "idle"]
       ELSE /\ pc' = [pc EXCEPT ![p] = "write"]
            /\ UNCHANGED tf
    /\ UNCHANGED <<r, raw, op, ret, callsLeft, reads, closes, first, fs, builderVars,
                   clientVars>>

\* ToFile: return os.WriteFile("continue.html", r.body, 0644); writeOK is the
\* verdict of the file system
ToFileWrite(p, writeOK) ==
    /\ pc[p] = "write"
    /\ IF writeOK
       THEN /\ fs' = [name \in DOMAIN fs \cup {ContinueHtml} |->
                        IF name = ContinueHtml THEN r.body ELSE fs[name]]
            /\ tf' = [tf EXCEPT ![p].returned = TRUE, ![p].wrote = TRUE]
       ELSE /\ tf' = [tf EXCEPT ![p].returned = TRUE, ![p].err = ErrWriteFile]
            /\ UNCHANGED fs
    /\ pc' = [pc EXCEPT ![p] = "idle"]
    /\ UNCHANGED <<r, raw, op, ret, callsLeft, reads, closes, first, builderVars,
                   clientVars>>

NextResponse ==
    \E p \in Callers :
        \/ \E o \in {"Bytes", "String", "Json"} : Call(p, o)
        \/ OnceFast(p)
        \/ OnceLock(p)
        \/ OnceSlow(p)
        \/ ReadRaw(p)
        \/ DecodeBody(p)
        \/ DecodeFallback(p)
        \/ CloseBody(p)
        \/ OnceFinish(p)
        \/ Return(p)

\* the body accessors and ToFile
NextToFile ==
    \E p \in Callers :
        \/ \E o \in {"Bytes", "String", "Json"} : Call(p, o)
        \/ OnceFast(p)
        \/ OnceLock(p)
        \/ OnceSlow(p)
        \/ ReadRaw(p)
        \/ DecodeBody(p)
        \/ DecodeFallback(p)
        \/ CloseBody(p)
        \/ OnceFinish(p)
        \/ Return(p)
        \/ \E filename \in Filenames : ToFile(p, filename)
        \/ ToFileCheck(p)
        \/ \E writeOK \in BOOLEAN : ToFileWrite(p, writeOK)

InitResponse ==
    InitResponseWith(RawSamples, EncodingSamples, {FALSE}, [p \in Callers |-> MaxCalls])

InitDecode ==
    InitResponseWith(SeqsUpTo(MaxRawLen), ContentEncodings, BOOLEAN,
                     [p \in Callers |-> IF p = 1 THEN MaxCalls ELSE 0])

\* ------------------------------------------------------ the RequestBuilder
MaxOps == 5

FieldNames == {"f1", "f2"}
ContentType == "Content-Type"
CtJSON == <<"application/json">>
CtForm == <<"application/x-www-form-urlencoded">>
CtMultipart(boundary) == <<"multipart/form-data", boundary>>
NoHeader == <<>>
CtText == <<"text/plain">>
Boundaries == {"bnd1", "bnd2"}
BadURL == "://bad"
URLs == {"http://h/p", "http://h/p?x=1", BadURL}
Methods == {"POST", "BAD METHOD"}
NilURL == [nil |-> TRUE, base |-> "", RawQuery |-> <<>>]
NilBody == [nil |-> TRUE, data |-> <<>>, read |-> FALSE]
NoReq == [mode |-> "none", method |-> "", url |-> NilURL, header |-> <<>>, body |-> <<>>]
NoDo == [called |-> FALSE, resp |-> "nil", err |-> "nil", panicked |-> FALSE,
         sent |-> FALSE, req |-> NoReq, attempts |-> 0, ctxDone |-> FALSE]

\* context.Context values: context.Background(), a context with a cancel
\* function or a deadline, and the nil interface
Background == "context.Background"
WithCancel == "context.WithCancel"
NilCtx == "nil context"
Contexts == {Background, WithCancel, NilCtx}


\* a map with key k set to v, as m[k] = v on a Go map
MapSet(m, k, v) == [x \in DOMAIN m \cup {k} |-> IF x = k THEN v ELSE m[x]]

\* http.Header.Get for the single-valued headers of the model
HeaderGet(h, k) == IF k \in DOMAIN h THEN h[k] ELSE NoHeader

\* a map with every entry of n written into it
MapMerge(m, n) == [x \in DOMAIN m \cup DOMAIN n |-> IF x \in DOMAIN n THEN n[x] ELSE m[x]]

EmptyMap == [x \in {} |-> ""]

\* bytes.NewReader(b), strings.NewReader(s), a bytes.Buffer: unread data
NewReader(d) == [nil |-> FALSE, data |-> d, read |-> FALSE]

\* Method(method, url): the builder as constructed
NewBuilder(method, u) ==
    [ method |-> method, url |-> u, params |-> EmptyMap, headers |-> EmptyMap,
      body |-> NilBody, isJSON |-> FALSE, isMultipart |-> FALSE,
      files |-> EmptyMap, formFields |-> EmptyMap, ctx |-> Background ]

\* the maps the model passes to Form
FormInputs ==
    { EmptyMap,
      [k \in {"k1"} |-> "v1"],
      [k \in {"k1"} |-> "v2"],
      [k \in {"k1", "k2"} |-> "v1"] }

InitBuilder ==
    /\ \E u \in URLs : rb = NewBuilder("POST", u)
    /\ last = NoDo
    /\ lastMode = "none"
    /\ callerCT = NoHeader
    /\ ops = 0
    /\ prev = NoDo
    /\ open = 0

\* one more call on the builder; the Response is not touched
Step ==
    /\ ops < MaxOps
    /\ ops' = ops + 1
    /\ UNCHANGED <<respVars, clientVars>>

SetMethod(m) ==
    /\ Step
    /\ rb' = [rb EXCEPT !.method = m]
    /\ last' = NoDo
    /\ prev' = NoDo
    /\ UNCHANGED open
    /\ UNCHANGED <<lastMode, callerCT>>

Param(key, value) ==
    /\ Step
    /\ rb' = [rb EXCEPT !.params = MapSet(@, key, <<value>>)]
    /\ last' = NoDo
    /\ prev' = NoDo
    /\ UNCHANGED open
    /\ UNCHANGED <<lastMode, callerCT>>

\* WithContext: rb.ctx = ctx
WithContext(ctx) ==
    /\ Step
    /\ rb' = [rb EXCEPT !.ctx = ctx]
    /\ last' = NoDo
    /\ prev' = NoDo
    /\ UNCHANGED <<lastMode, callerCT, open>>

\* the url.Values the model passes to ParamsValues
ValuesInputs ==
    { [k \in {"q"} |-> <<"a", "b">>],
      [k \in {"x"} |-> <<"2">>] }

\* url.Values.Add for every value of every key of n: appended to what m holds
MapAdd(m, n) ==
    [k \in DOMAIN m \cup DOMAIN n |->
        (IF k \in DOMAIN m THEN m[k] ELSE <<>>) \o (IF k \in DOMAIN n THEN n[k] ELSE <<>>)]

ParamsValues(values) ==
    /\ Step
    /\ rb' = [rb EXCEPT !.params = MapAdd(@, values)]
    /\ last' = NoDo
    /\ prev' = NoDo
    /\ UNCHANGED <<lastMode, callerCT, open>>

\* the maps the model passes to Params
ParamsInputs ==
    { [k \in {"q"} |-> "b"],
      [k \in {"q", "x"} |-> "c"] }

\* url.Values.Set for every key of params: one value, the earlier ones dropped
Params(params) ==
    /\ Step
    /\ rb' = [rb EXCEPT !.params = MapMerge(@, [k \in DOMAIN params |-> <<params[k]>>])]
    /\ last' = NoDo
    /\ prev' = NoDo
    /\ UNCHANGED <<lastMode, callerCT, open>>

Header(key, value) ==
    /\ Step
    /\ rb' = [rb EXCEPT !.headers = MapSet(@, key, value)]
    /\ callerCT' = IF key = ContentType THEN value ELSE callerCT
    /\ last' = NoDo
    /\ prev' = NoDo
    /\ UNCHANGED open
    /\ UNCHANGED lastMode

IsJSON ==
    /\ Step
    /\ rb' = [rb EXCEPT !.isJSON = TRUE]
    /\ lastMode' = "json"
    /\ last' = NoDo
    /\ prev' = NoDo
    /\ UNCHANGED open
    /\ UNCHANGED callerCT

Body(b) ==
    /\ Step
    /\ rb' = [rb EXCEPT !.body = NewReader(b), !.isJSON = FALSE, !.isMultipart = FALSE]
    /\ lastMode' = "raw"
    /\ last' = NoDo
    /\ prev' = NoDo
    /\ UNCHANGED open
    /\ UNCHANGED callerCT

\* json.Marshal of a value that can be marshalled
Marshal(data) == <<"{", data, "}">>

Json(data) ==
    /\ Step
    /\ rb' = [rb EXCEPT !.body = NewReader(Marshal(data)), !.isJSON = TRUE,
                        !.isMultipart = FALSE]
    /\ lastMode' = "json"
    /\ last' = NoDo
    /\ prev' = NoDo
    /\ UNCHANGED open
    /\ UNCHANGED callerCT

Form(fields) ==
    /\ Step
    /\ rb' = [rb EXCEPT !.formFields = MapMerge(@, fields)]
    /\ lastMode' = IF DOMAIN fields = {} THEN lastMode ELSE "form"
    /\ last' = NoDo
    /\ prev' = NoDo
    /\ UNCHANGED open
    /\ UNCHANGED callerCT

\* a file attached to the builder: its name and its reader.  kind is the
\* reader's type (an *os.File, a bytes.Reader, the caller's io.Reader)
MultipartFile(name, kind, data, fails) ==
    [ FileName |-> name,
      Reader |-> [kind |-> kind, data |-> data, fails |-> fails,
                  read |-> FALSE, closed |-> FALSE] ]

\* a variant of the attachment that leaves isJSON as it was
AttachedKeepsJSON(fieldname, mf) ==
    [rb EXCEPT !.files = MapSet(@, fieldname, mf), !.isMultipart = TRUE]

\* rb.files[fieldname] = mf and the two flags, as File, FileBytes and
\* FileReader all end
Attached(fieldname, mf) ==
    [rb EXCEPT !.files = MapSet(@, fieldname, mf), !.isMultipart = TRUE, !.isJSON = FALSE]

\* filepath.Base of the paths the model opens
Base(path) == IF path = "dir/a.txt" THEN "a.txt" ELSE path

\* File: os.Open succeeded on a file holding "disk"
File(fieldname, path) ==
    /\ Step
    /\ rb' = Attached(fieldname, MultipartFile(Base(path), "file", <<"disk">>, FALSE))
    /\ open' = open + 1
    /\ lastMode' = "multipart"
    /\ last' = NoDo
    /\ prev' = NoDo
    /\ UNCHANGED callerCT

FileBytes(fieldname, filename, data) ==
    /\ Step
    /\ rb' = Attached(fieldname, MultipartFile(filename, "bytes", data, FALSE))
    /\ lastMode' = "multipart"
    /\ last' = NoDo
    /\ prev' = NoDo
    /\ UNCHANGED open
    /\ UNCHANGED callerCT

\* FileReader: the caller's reader may fail when it is read
FileReader(fieldname, filename, fails) ==
    /\ Step
    /\ rb' = Attached(fieldname, MultipartFile(filename, "reader", <<"stream">>, fails))
    /\ lastMode' = "multipart"
    /\ last' = NoDo
    /\ prev' = NoDo
    /\ UNCHANGED open
    /\ UNCHANGED callerCT

\* url.Parse on the URLs the model uses: nil for the one that does not parse
UrlParse(u) ==
    IF u = BadURL THEN NilURL
    ELSE IF u = "http://h/p?x=1"
    THEN [nil |-> FALSE, base |-> "http://h/p", RawQuery |-> << <<"x", "1">> >>]
    ELSE [nil |-> FALSE, base |-> u, RawQuery |-> <<>>]

\* the keys the model uses in queries, in the order sort.Strings gives
KeyOrder == <<"q", "x">>

\* url.Values.Encode from the i-th key on: for each key in sorted order, one
\* key=value pair per value, in the order the values were added
RECURSIVE EncodeFrom(_, _)
EncodeFrom(values, i) ==
    IF i > Len(KeyOrder) THEN <<>>
    ELSE LET k == KeyOrder[i]
             pairs == IF k \in DOMAIN values
                      THEN [j \in 1 .. Len(values[k]) |-> <<k, values[k][j]>>]
                      ELSE <<>>
         IN  pairs \o EncodeFrom(values, i + 1)

\* url.Values.Encode: the pairs, sorted by key
Encode(values) == EncodeFrom(values, 1)

\* net/http's validMethod
ValidMethod(m) == m # "BAD METHOD"

\* the orders in which a range over the map rb.files may visit its keys
Orders(S) ==
    {o \in [1 .. Cardinality(S) -> S] : \A i, j \in DOMAIN o : i # j => o[i] # o[j]}

\* a variant of the copy that reads every reader from its start again
CopyFromRewinds(rd) ==
    IF rd.kind = "file" /\ rd.closed THEN [ok |-> FALSE, data |-> <<>>]
    ELSE IF rd.fails THEN [ok |-> FALSE, data |-> <<>>]
    ELSE [ok |-> TRUE, data |-> rd.data]

\* io.Copy(part, mfile.Reader): what is left in the reader, or an error
CopyFrom(rd) ==
    IF rd.kind = "file" /\ rd.closed THEN [ok |-> FALSE, data |-> <<>>]
    ELSE IF rd.fails THEN [ok |-> FALSE, data |-> <<>>]
    ELSE [ok |-> TRUE, data |-> IF rd.read THEN <<>> ELSE rd.data]

\* the loop of Do over rb.files from position i of the order: each file is
\* copied into a part and, when it is an *os.File, closed; an error stops the loop
RECURSIVE WriteFiles(_, _, _, _)
WriteFiles(order, i, files, parts) ==
    IF i > Len(order) THEN [ok |-> TRUE, files |-> files, parts |-> parts]
    ELSE LET field == order[i]
             mfile == files[field]
             copied == CopyFrom(mfile.Reader)
         IN  IF ~copied.ok THEN [ok |-> FALSE, files |-> files, parts |-> parts]
             ELSE WriteFiles(order, i + 1,
                     [files EXCEPT ![field].Reader.read = TRUE,
                                   ![field].Reader.closed = (mfile.Reader.kind = "file")],
                     parts \cup {<<field, mfile.FileName, copied.data>>})

\* a variant of the multipart body that leaves the form fields out
MultipartBodyNoFields(boundary, parts, fields) == <<"multipart", boundary, parts, EmptyMap>>

\* the multipart body once writer.Close() has run: the boundary, the file
\* parts (field name, file name, content) and the fields WriteField wrote
MultipartBody(boundary, parts, fields) == <<"multipart", boundary, parts, fields>>

\* the body Do selects before it builds the request: the branch taken, the
\* builder as Do leaves it, and whether Do returned an error from the branch.
\* withForm tells the Do of reqx.go, which has the form branch, from DoCtx
SelectBody(order, boundary, withForm) ==
    IF rb.isMultipart /\ DOMAIN rb.files # {}
    THEN LET w == WriteFiles(order, 1, rb.files, {})
         IN  IF ~w.ok
             THEN [mode |-> "multipart", failed |-> TRUE, rb |-> [rb EXCEPT !.files = w.files]]
             ELSE [mode |-> "multipart", failed |-> FALSE,
                   rb |-> [rb EXCEPT
                       !.files = w.files,
                       !.body = NewReader(MultipartBody(boundary, w.parts, rb.formFields)),
                       !.headers = MapSet(@, ContentType, CtMultipart(boundary))]]
    ELSE IF rb.isJSON
    THEN [mode |-> "json", failed |-> FALSE,
          rb |-> [rb EXCEPT !.headers = MapSet(@, ContentType, CtJSON)]]
    ELSE IF withForm /\ DOMAIN rb.formFields # {}
    THEN [mode |-> "form", failed |-> FALSE,
          rb |-> [rb EXCEPT !.body = NewReader(<<"form", rb.formFields>>),
                            !.headers = MapSet(@, ContentType, CtForm)]]
    ELSE [mode |-> "raw", failed |-> FALSE, rb |-> rb]

\* http.NewRequestWithContext plus the header loop: the request the client gets
Request(mode, b, u) ==
    [ mode |-> mode, method |-> b.method, url |-> u, header |-> b.headers,
      body |-> IF b.body.nil \/ b.body.read THEN <<>> ELSE b.body.data ]

Returns(resp, err, req) ==
    [NoDo EXCEPT !.called = TRUE, !.resp = resp, !.err = err, !.sent = req # NoReq,
                 !.req = req]

Panics == [NoDo EXCEPT !.called = TRUE, !.panicked = TRUE]

\* a variant of the client call that tries once more when the first try failed
ClientCallRetries(transportOK, ctxDone) ==
    IF transportOK /\ ~ctxDone
    THEN [resp |-> "Response", err |-> "nil", attempts |-> 1]
    ELSE [resp |-> IF ctxDone THEN "nil" ELSE "Response",
          err |-> IF ctxDone THEN "error" ELSE "nil", attempts |-> 2]

\* r, err := c.Do(req), once: the client's answer.  transportOK is the
\* verdict of the transport, ctxDone whether the request's context was done
\* before the response arrived, which makes the client return an error
ClientCall(transportOK, ctxDone) ==
    IF transportOK /\ ~ctxDone
    THEN [resp |-> "Response", err |-> "nil", attempts |-> 1]
    ELSE [resp |-> "nil", err |-> "error", attempts |-> 1]

\* what Do returns after c.Do(req)
Sent(answer, req, ctxDone) ==
    [Returns(answer.resp, answer.err, req) EXCEPT !.attempts = answer.attempts,
                                                  !.ctxDone = ctxDone]

\* the lines Do and DoCtx share: parse the URL, set the query, select the
\* body, build the request with the context ctx and hand it to the client.
\* bodyRead tells whether the client read the body before it gave up.  The
\* result is the builder as the call leaves it, what the call returns, and
\* the number of files it closed
Execute(ctx, withForm, order, boundary, transportOK, bodyRead, ctxDone) ==
    LET parsed == UrlParse(rb.url)
        u == IF DOMAIN rb.params # {}
             THEN [parsed EXCEPT !.RawQuery = Encode(rb.params)]
             ELSE parsed
        sel == SelectBody(order, boundary, withForm)
        req == Request(sel.mode, sel.rb, u)
        answer == ClientCall(transportOK, ctxDone)
        closed == Cardinality({f \in DOMAIN rb.files :
                      sel.rb.files[f].Reader.closed /\ ~rb.files[f].Reader.closed})
    IN  IF parsed.nil /\ DOMAIN rb.params # {}
        THEN \* u.RawQuery = ... on a nil *url.URL
             [rb |-> rb, last |-> Panics, closed |-> 0]
        ELSE IF sel.failed
        THEN [rb |-> sel.rb, last |-> Returns("nil", "error", NoReq), closed |-> closed]
        ELSE IF parsed.nil
        THEN \* u.String() on a nil *url.URL
             [rb |-> sel.rb, last |-> Panics, closed |-> closed]
        ELSE IF ~ValidMethod(rb.method) \/ ctx = NilCtx
        THEN \* http.NewRequestWithContext refuses the method or the nil context
             [rb |-> sel.rb, last |-> Returns("nil", "error", NoReq), closed |-> closed]
        ELSE IF answer.err = "nil"
        THEN [rb |-> [sel.rb EXCEPT !.body.read = ~sel.rb.body.nil],
              last |-> Sent(answer, req, ctxDone), closed |-> closed]
        ELSE [rb |-> [sel.rb EXCEPT !.body.read = (bodyRead /\ ~sel.rb.body.nil) \/ @],
              last |-> Sent(answer, req, ctxDone), closed |-> closed]

\* the call leaves the builder, its result and the open files as e says
Executed(e) ==
    /\ rb' = e.rb
    /\ last' = e.last
    /\ prev' = last
    /\ open' = open - e.closed
    /\ UNCHANGED <<lastMode, callerCT>>

\* Do of reqx.go: the request carries the builder's context
Do(boundary, transportOK, bodyRead, ctxDone) ==
    /\ Step
    /\ ctxDone => rb.ctx = WithCancel
    /\ \E order \in Orders(DOMAIN rb.files) :
        Executed(Execute(rb.ctx, TRUE, order, boundary, transportOK, bodyRead, ctxDone))

\* DoCtx: the request carries the context given in the call
DoCtx(ctx, boundary, transportOK, bodyRead, ctxDone) ==
    /\ Step
    /\ ctxDone => ctx = WithCancel
    /\ \E order \in Orders(DOMAIN rb.files) :
        Executed(Execute(ctx, FALSE, order, boundary, transportOK, bodyRead, ctxDone))

NextBuilder ==
    \/ \E m \in Methods : SetMethod(m)
    \/ Param("q", "a")
    \/ Header(ContentType, CtText)
    \/ IsJSON
    \/ Body(<<"b1">>)
    \/ Json("j1")
    \/ \E fields \in FormInputs : Form(fields)
    \/ \E f \in FieldNames : File(f, "dir/a.txt")
    \/ \E f \in FieldNames : FileBytes(f, "b.txt", <<"mem">>)
    \/ \E f \in FieldNames, fails \in BOOLEAN : FileReader(f, "r.txt", fails)
    \/ \E boundary \in Boundaries, transportOK \in BOOLEAN, bodyRead \in BOOLEAN :
            Do(boundary, transportOK, bodyRead, FALSE)

\* the calls that matter to the query string
NextQuery ==
    \/ \E value \in {"a", "b"} : Param("q", value)
    \/ \E params \in ParamsInputs : Params(params)
    \/ \E values \in ValuesInputs : ParamsValues(values)
    \/ \E transportOK \in BOOLEAN : Do("bnd1", transportOK, FALSE, FALSE)

\* the calls that matter to the request's context
NextContext ==
    \/ \E m \in Methods : SetMethod(m)
    \/ \E ctx \in Contexts : WithContext(ctx)
    \/ Body(<<"b1">>)
    \/ Form([k \in {"k1"} |-> "v1"])
    \/ \E f \in FieldNames : FileBytes(f, "b.txt", <<"mem">>)
    \/ \E boundary \in Boundaries, transportOK \in BOOLEAN, bodyRead \in BOOLEAN,
          ctxDone \in BOOLEAN :
            Do(boundary, transportOK, bodyRead, ctxDone)
    \/ \E ctx \in Contexts, boundary \in Boundaries, transportOK \in BOOLEAN,
          bodyRead \in BOOLEAN, ctxDone \in BOOLEAN :
            DoCtx(ctx, boundary, transportOK, bodyRead, ctxDone)

\* ---------------------------------------------------- the client Do uses
\* *http.Client values: the nil pointer, the caller's own client, and the
\* n-th client the package created
NilClient == [kind |-> "nil", id |-> 0]
CustomClient == [kind |-> "custom", id |-> 0]
NewClient(n) == [kind |-> "default", id |-> n]

\* the variadic argument of Do: absent, a nil pointer, the caller's client
ClientArgs == {<<>>, <<NilClient>>, <<CustomClient>>}

NoUse == [called |-> FALSE, client |-> <<>>, c |-> NilClient]

\* the package variables before any Do, and the goroutines about to call Do
InitClient ==
    /\ globalClient = NilClient
    /\ globalClientOnce = [done |-> FALSE, m |-> 0]
    /\ created = 0
    /\ cpc = [g \in Callers |-> "idle"]
    /\ clientArg = [g \in Callers |-> <<>>]
    /\ c = [g \in Callers |-> NilClient]
    /\ used = [g \in Callers |-> NoUse]
    /\ doLeft = [g \in Callers |-> MaxCalls]

\* Do, the selection of the client: client[0] when given and not nil,
\* getGlobalClient() otherwise
SelectClient(g, client) ==
    /\ cpc[g] = "idle"
    /\ doLeft[g] > 0
    /\ doLeft' = [doLeft EXCEPT ![g] = @ - 1]
    /\ clientArg' = [clientArg EXCEPT ![g] = client]
    /\ IF Len(client) > 0 /\ client[1] # NilClient
       THEN /\ c' = [c EXCEPT ![g] = client[1]]
            /\ cpc' = [cpc EXCEPT ![g] = "do"]
       ELSE /\ c' = [c EXCEPT ![g] = NilClient]
            /\ cpc' = [cpc EXCEPT ![g] = "fast"]
    /\ UNCHANGED <<globalClient, globalClientOnce, created, used, respVars, builderVars>>

\* globalClientOnce.Do, fast path: done already set
GlobalOnceFast(g) ==
    /\ cpc[g] = "fast"
    /\ cpc' = [cpc EXCEPT ![g] = IF globalClientOnce.done THEN "get" ELSE "lock"]
    /\ UNCHANGED <<globalClient, globalClientOnce, created, clientArg, c, used, doLeft,
                   respVars, builderVars>>

\* globalClientOnce.Do, doSlow: o.m.Lock()
GlobalOnceLock(g) ==
    /\ cpc[g] = "lock"
    /\ globalClientOnce.m = 0
    /\ globalClientOnce' = [globalClientOnce EXCEPT !.m = g]
    /\ cpc' = [cpc EXCEPT ![g] = "slow"]
    /\ UNCHANGED <<globalClient, created, clientArg, c, used, doLeft, respVars, builderVars>>

\* the function getGlobalClient hands to the Once: globalClient = &http.Client{}
CreateClient ==
    /\ created' = created + 1
    /\ globalClient' = NewClient(created + 1)

\* a variant of doSlow that runs the function without looking at done again
GlobalOnceSlowNoRecheck(g) ==
    /\ cpc[g] = "slow"
    /\ CreateClient
    /\ cpc' = [cpc EXCEPT ![g] = "finish"]
    /\ UNCHANGED <<globalClientOnce, clientArg, c, used, doLeft, respVars, builderVars>>

\* globalClientOnce.Do, doSlow under the lock: run the function only if done
\* is still unset
GlobalOnceSlow(g) ==
    /\ cpc[g] = "slow"
    /\ IF globalClientOnce.done
       THEN UNCHANGED <<globalClient, created>>
       ELSE CreateClient
    /\ cpc' = [cpc EXCEPT ![g] = "finish"]
    /\ UNCHANGED <<globalClientOnce, clientArg, c, used, doLeft, respVars, builderVars>>

\* globalClientOnce.Do, doSlow returning: done.Store(1) and m.Unlock()
GlobalOnceFinish(g) ==
    /\ cpc[g] = "finish"
    /\ globalClientOnce' = [done |-> TRUE, m |-> 0]
    /\ cpc' = [cpc EXCEPT ![g] = "get"]
    /\ UNCHANGED <<globalClient, created, clientArg, c, used, doLeft, respVars, builderVars>>

\* getGlobalClient: return globalClient, assigned to Do's c
GetGlobalClient(g) ==
    /\ cpc[g] = "get"
    /\ c' = [c EXCEPT ![g] = globalClient]
    /\ cpc' = [cpc EXCEPT ![g] = "do"]
    /\ UNCHANGED <<globalClient, globalClientOnce, created, clientArg, used, doLeft,
                   respVars, builderVars>>

\* Do: r, err := c.Do(req), on the client selected
ClientDo(g) ==
    /\ cpc[g] = "do"
    /\ used' = [used EXCEPT ![g] = [called |-> TRUE, client |-> clientArg[g], c |-> c[g]]]
    /\ cpc' = [cpc EXCEPT ![g] = "idle"]
    /\ UNCHANGED <<globalClient, globalClientOnce, created, clientArg, c, doLeft,
                   respVars, builderVars>>

NextClient ==
    \E g \in Callers :
        \/ \E client \in ClientArgs : SelectClient(g, client)
        \/ GlobalOnceFast(g)
        \/ GlobalOnceLock(g)
        \/ GlobalOnceSlow(g)
        \/ GlobalOnceFinish(g)
        \/ GetGlobalClient(g)
        \/ ClientDo(g)

InitIdleResponse ==
    /\ r = Response(<<>>, FALSE, <<>>, FALSE)
    /\ raw = <<>>
    /\ pc = [p \in Callers |-> "idle"]
    /\ op = [p \in Callers |-> "none"]
    /\ ret = [p \in Callers |-> NoRet]
    /\ callsLeft = [p \in Callers |-> 0]
    /\ reads = 0
    /\ closes = 0
    /\ first = NoFirst
    /\ fs = NoFiles
    /\ tf = [p \in Callers |-> NoToFile]

InitIdleBuilder ==
    /\ rb = NewBuilder("POST", "http://h/p")
    /\ last = NoDo
    /\ lastMode = "none"
    /\ callerCT = NoHeader
    /\ ops = 0
    /\ prev = NoDo
    /\ open = 0

\* no goroutine is about to call Do
InitIdleClient ==
    /\ globalClient = NilClient
    /\ globalClientOnce = [done |-> FALSE, m |-> 0]
    /\ created = 0
    /\ cpc = [g \in Callers |-> "idle"]
    /\ clientArg = [g \in Callers |-> <<>>]
    /\ c = [g \in Callers |-> NilClient]
    /\ used = [g \in Callers |-> NoUse]
    /\ doLeft = [g \in Callers |-> 0]

vars == <<respVars, builderVars, clientVars>>

\* several callers share one Response
InitResponseSpec == InitResponse /\ InitIdleBuilder /\ InitIdleClient
\* one caller, every stream up to MaxRawLen bytes
InitDecodeSpec == InitDecode /\ InitIdleBuilder /\ InitIdleClient
\* one builder, configured and executed
InitBuilderSpec == InitBuilder /\ InitIdleResponse /\ InitIdleClient
\* several goroutines call Do, each on a builder of its own
InitClientSpec == InitClient /\ InitIdleResponse /\ InitIdleBuilder

SpecResponse == InitResponseSpec /\ [][NextResponse]_vars
SpecDecode == InitDecodeSpec /\ [][NextResponse]_vars
\* several callers share one Response and write it to a file as well
SpecToFile == InitResponseSpec /\ [][NextToFile]_vars
SpecBuilder == InitBuilderSpec /\ [][NextBuilder]_vars
\* one builder, its context set and the request executed
SpecContext == InitBuilderSpec /\ [][NextContext]_vars
\* one builder, its parameters accumulated and the request executed
SpecQuery == InitBuilderSpec /\ [][NextQuery]_vars
SpecClient == InitClientSpec /\ [][NextClient]_vars

\* ------------------------------------------------------------------ claims
\* the stream could be read
StreamOK == ~r.resp.BodyErr
\* cacheBody has run to its end
Cached == r.once.done
\* caller p has an accessor's result in hand
HasReturned(p) == ret[p].op # "none"
InsideOnce == {"read", "decode", "fallback", "close", "finish"}

\* C4: the body stream is read and closed at most once whatever the number of
\* accessor calls and however the callers interleave, and a caller that
\* returns from an accessor does so after the one read-and-decode has finished
C4_ReadOnce ==
    /\ reads <= 1
    /\ closes <= 1
    /\ \A p \in Callers :
          (pc[p] = "ret" \/ HasReturned(p)) =>
              /\ Cached
              /\ reads = 1
              /\ closes = 1
              /\ (pc[p] = "ret" => \A q \in Callers : pc[q] \notin InsideOnce)

\* C4 witness: every caller made all its calls on the shared Response and the
\* stream was read and closed once
C4_Witness ==
    /\ \A p \in Callers : callsLeft[p] = 0 /\ pc[p] = "idle" /\ HasReturned(p)
    /\ reads = 1
    /\ closes = 1

\* what caller p got agrees with what the first accessor to return observed
AgreesWithFirst(p) ==
    IF ret[p].op = "Json"
    THEN IF first.err # Nil
         THEN ret[p].err = first.err /\ ~ret[p].unmarshal
         ELSE ret[p].unmarshal /\ ret[p].body = first.body
    ELSE ret[p].body = first.body /\ ret[p].err = first.err

\* C5: after the first body access every later Bytes, String or Json sees
\* the bytes and the error the first one saw; Bytes and String return equal
\* content and the cached result never changes
C5_SameResult ==
    /\ first.seen => r.body = first.body /\ r.readErr = first.err
    /\ \A p \in Callers : HasReturned(p) => first.seen /\ AgreesWithFirst(p)
    /\ \A p, q \in Callers :
          ret[p].op = "Bytes" /\ ret[q].op = "String" =>
              ret[p].body = ret[q].body /\ ret[p].err = ret[q].err

\* C5 witness: Bytes and String both returned a body that decoding changed
C5_Witness ==
    \E p, q \in Callers :
        /\ ret[p].op = "Bytes"
        /\ ret[q].op = "String"
        /\ ret[p].body # <<>>
        /\ ret[p].body # r.resp.Body

\* gzip decoding of the stream s fails
GzipFails(s) == ~GzipNewReader(s).ok \/ ~GzipReadAll(GzipNewReader(s).rest).ok
\* zlib decoding of the stream s fails, at the header or while reading
ZlibFails(s) == ~ZlibNewReader(s).ok \/ ~ZlibReadAll(ZlibNewReader(s).rest).ok
\* raw deflate decoding of the stream s fails
FlateFails(s) == ~FlateReadAll(s).ok

DecodingFails ==
    /\ StreamOK
    /\ ~r.resp.Uncompressed
    /\ \/ enc(r.resp.ContentEncoding) = Gzip /\ GzipFails(r.resp.Body)
       \/ /\ enc(r.resp.ContentEncoding) = Deflate
          /\ ZlibFails(r.resp.Body)
          /\ FlateFails(r.resp.Body)

\* C6: when decompression by the declared encoding fails, the cached body is
\* the raw bytes as received, an error is recorded, Bytes and String return
\* that error with the raw bytes and Json returns it without unmarshalling
C6_DecodeFailureKeepsRaw ==
    Cached /\ DecodingFails =>
        /\ r.body = r.resp.Body
        /\ r.readErr # Nil
        /\ \A p \in Callers :
              HasReturned(p) =>
                  /\ ret[p].err = r.readErr
                  /\ ret[p].op \in {"Bytes", "String"} => ret[p].body = r.resp.Body
                  /\ ret[p].op = "Json" => ~ret[p].unmarshal

\* C6 witness: a gzip stream with a good header and a bad trailer; Bytes
\* returned the raw bytes with the read error
C6_Witness ==
    /\ Cached /\ DecodingFails
    /\ enc(r.resp.ContentEncoding) = Gzip
    /\ GzipNewReader(r.resp.Body).ok
    /\ ret[1].op = "Bytes"
    /\ ret[1].body = r.resp.Body
    /\ ret[1].err = ErrReadGzip

\* the header names the encoding e, whatever its case and the spaces around it
Says(header, e) == ToLower(TrimSpace(header)) = e

\* the only payload whose gzip encoding the stream s can be
GzipPayload(s) == SubSeq(s, 2, Len(s) - 2)

\* the stream s is the gzip encoding of the payload p
IsGzipOf(s, p) == IsPayload(p) /\ s = GzipEncode(p)

\* C7: with Content-Encoding gzip (any case, spaces around ignored) and a
\* valid gzip stream of payload P, Bytes and String return P and no error;
\* a body the transport decompressed already is handed out as it was read
C7_GzipDecoded ==
    /\ ( /\ Cached /\ StreamOK /\ ~r.resp.Uncompressed
         /\ Says(r.resp.ContentEncoding, Gzip)
         /\ IsGzipOf(r.resp.Body, GzipPayload(r.resp.Body)) )
       => /\ r.body = GzipPayload(r.resp.Body)
          /\ r.readErr = Nil
          /\ \A p \in Callers :
                ret[p].op \in {"Bytes", "String"} =>
                    ret[p].body = GzipPayload(r.resp.Body) /\ ret[p].err = Nil
    /\ (Cached /\ StreamOK /\ r.resp.Uncompressed)
       => r.body = r.resp.Body /\ r.readErr = Nil

\* C7 witness: the header is " GZip ", the stream a gzip member carrying one
\* byte, and String returned that byte
C7_Witness ==
    /\ r.resp.ContentEncoding = <<" ", "G", "Z", "i", "p", " ">>
    /\ ~r.resp.Uncompressed
    /\ r.resp.Body = GzipEncode(<<2>>)
    /\ ret[1].op = "String"
    /\ ret[1].body = <<2>>
    /\ ret[1].err = Nil

SaysDeflate == StreamOK /\ ~r.resp.Uncompressed /\ enc(r.resp.ContentEncoding) = Deflate

\* C8: with Content-Encoding deflate the body is decoded as zlib first; raw
\* deflate is attempted only after zlib failed, on the same raw bytes; when
\* either succeeds its payload is what is cached, with no error, also when
\* the zlib attempt had recorded one
C8_DeflateFallback ==
    /\ (Cached /\ SaysDeflate /\ ~ZlibFails(r.resp.Body))
       => /\ r.body = ZlibReadAll(ZlibNewReader(r.resp.Body).rest).out
          /\ r.readErr = Nil
    /\ (Cached /\ SaysDeflate /\ ZlibFails(r.resp.Body) /\ ~FlateFails(r.resp.Body))
       => /\ r.body = FlateReadAll(r.resp.Body).out
          /\ r.readErr = Nil
    /\ \A p \in Callers :
          pc[p] = "fallback" =>
              /\ SaysDeflate
              /\ ZlibFails(r.resp.Body)
              /\ raw = r.resp.Body
              /\ ZlibNewReader(r.resp.Body).ok => r.readErr = ErrReadZlib
    /\ \A p \in Callers :
          ( /\ Cached /\ SaysDeflate
            /\ ~(ZlibFails(r.resp.Body) /\ FlateFails(r.resp.Body))
            /\ ret[p].op \in {"Bytes", "String"} )
          => ret[p].body = r.body /\ ret[p].err = Nil

\* C8 witness: a stream with a zlib header whose zlib reading fails and that
\* is valid raw deflate; Bytes returned the raw-deflate payload and no error
C8_Witness ==
    /\ Cached /\ SaysDeflate
    /\ ZlibNewReader(r.resp.Body).ok
    /\ ZlibFails(r.resp.Body)
    /\ ~FlateFails(r.resp.Body)
    /\ ret[1].op = "Bytes"
    /\ ret[1].body = FlateReadAll(r.resp.Body).out
    /\ ret[1].body # <<>>
    /\ ret[1].err = Nil

PassedThrough ==
    /\ r.body = r.resp.Body
    /\ r.readErr = Nil
    /\ \A p \in Callers :
          ret[p].op = "Bytes" => ret[p].body = r.resp.Body /\ ret[p].err = Nil

\* C9 as stated: when Content-Encoding is br, absent or any value other than
\* gzip and deflate, Bytes returns the bytes read from the stream, unmodified
\* and without error whenever the stream could be read
C9_OtherValuesPassThrough ==
    ( /\ Cached /\ StreamOK
      /\ ~Says(r.resp.ContentEncoding, Gzip)
      /\ ~Says(r.resp.ContentEncoding, Deflate) )
    => PassedThrough

\* the first element of a comma-separated header value
RECURSIVE UpToComma(_)
UpToComma(s) ==
    IF s = <<>> \/ Head(s) = "," THEN <<>> ELSE <<Head(s)>> \o UpToComma(Tail(s))

\* C9 as amended: when the first element of Content-Encoding is br, empty or
\* anything other than gzip and deflate, Bytes returns the bytes read from
\* the stream, unmodified and without error whenever the stream could be read
C9_OtherFirstCodingPassesThrough ==
    ( /\ Cached /\ StreamOK
      /\ ~Says(UpToComma(r.resp.ContentEncoding), Gzip)
      /\ ~Says(UpToComma(r.resp.ContentEncoding), Deflate) )
    => PassedThrough

\* C9 witness: the header is "br,gzip", the stream a valid gzip member, and
\* Bytes returned the stream as it was read
C9_Witness ==
    /\ Cached /\ StreamOK /\ ~r.resp.Uncompressed
    /\ r.resp.ContentEncoding = <<"b", "r", ",", "g", "z", "i", "p">>
    /\ r.resp.Body = GzipEncode(<<0>>)
    /\ ret[1].op = "Bytes"
    /\ ret[1].body = GzipEncode(<<0>>)
    /\ ret[1].err = Nil

\* C1 as stated: whatever body-configuring calls precede Do, the request is
\* sent in the body mode of the last of them (raw for Body, JSON for Json and
\* IsJSON, form for Form, multipart for File, FileBytes and FileReader)
C1_LastCallSelectsMode ==
    (last.sent /\ lastMode # "none") => last.req.mode = lastMode

\* C2 as stated: when a file was attached at any point before Do, the request
\* is sent as multipart whatever other body calls came before or after
C2_FilesMeanMultipart ==
    (last.sent /\ DOMAIN rb.files # {}) => last.req.mode = "multipart"

\* C3 as stated: the Content-Type sent matches the body mode: multipart with
\* a boundary, application/json, the URL-encoded form type; in raw mode the
\* header is the caller's own, or absent when the caller set none
C3_ContentTypeMatchesMode ==
    last.sent =>
        LET ct == HeaderGet(last.req.header, ContentType)
            mode == last.req.mode
        IN  /\ mode = "multipart" => \E b \in Boundaries : ct = CtMultipart(b)
            /\ mode = "json" => ct = CtJSON
            /\ mode = "form" => ct = CtForm
            /\ mode = "raw" => ct = callerCT

\* C10 as stated: Do never panics and returns either a Response or an error,
\* never both and never neither
C10_ResponseOrError ==
    last.called =>
        /\ ~last.panicked
        /\ (last.resp = "Response") # (last.err = "error")

\* the Do of goroutine g was given a client of the caller's
OwnClient(u) == Len(u.client) > 0 /\ u.client[1] # NilClient

\* C11: Do calls c.Do on the caller's client when a non-nil one is passed and
\* on the package's default client otherwise (no argument, or a nil first
\* argument); the default client is created once and every Do that uses it,
\* in whatever goroutine, gets the same instance
C11_ClientSelection ==
    /\ created <= 1
    /\ \A g \in Callers :
        used[g].called =>
            IF OwnClient(used[g])
            THEN used[g].c = used[g].client[1]
            ELSE /\ used[g].c = NewClient(1)
                 /\ used[g].c = globalClient

\* C11 witness: one goroutine's Do ran on the default client after a nil
\* argument, another's on the default client with no argument, and the
\* package created one client
C11_Witness ==
    /\ created = 1
    /\ \E g, h \in Callers :
        /\ g # h
        /\ used[g].called /\ used[g].client = <<NilClient>> /\ used[g].c = globalClient
        /\ used[h].called /\ used[h].client = <<>> /\ used[h].c = globalClient

\* C12: when the context of the request (the one given to WithContext, or
\* DoCtx's argument) is done before the response arrives, the call returns an
\* error and no Response, and it has called the client once; no call hands
\* its request to the client more than once
C12_CancelledIsErrorOnce ==
    /\ (last.called /\ last.ctxDone) =>
            /\ last.err = "error"
            /\ last.resp = "nil"
            /\ last.attempts = 1
    /\ last.attempts = (IF last.sent THEN 1 ELSE 0)

\* C12 witness: Do on a builder given a cancellable context sent its request,
\* the context was done before a response arrived, and Do returned the error
C12_Witness ==
    /\ rb.ctx = WithCancel
    /\ last.sent /\ last.ctxDone
    /\ last.err = "error" /\ last.resp = "nil"

\* C13 as stated: every file File opened is closed automatically: once Do has
\* returned, with a Response or with an error, no file opened by File for the
\* builder is still open, also when its field name was overwritten or when
\* Body or Json cleared the multipart mode
C13_FilesClosedAfterDo ==
    (last.called /\ ~last.panicked) => open = 0

\* the request of the latest call went out as multipart
SentMultipart(d) == d.sent /\ d.req.mode = "multipart"

\* the file parts of a multipart body whose content is what cont gives for
\* each field of the map files
FileParts(files, cont) == {<<f, files[f].FileName, cont[f]>> : f \in DOMAIN files}

\* C14 as stated: in multipart mode the body has one file part per attached
\* field name, with the file name and the content last attached under it, and
\* one field part per accumulated form field, whatever the order of the Form
\* and File calls and whatever the kinds of file combined
C14_MultipartParts ==
    SentMultipart(last) =>
        LET Attachment == [f \in DOMAIN rb.files |-> rb.files[f].Reader.data]
        IN  \E b \in Boundaries :
                last.req.body = <<"multipart", b, FileParts(rb.files, Attachment), rb.formFields>>

\* C14 as amended: in multipart mode the body has one file part per attached
\* field name, with the file name last attached under it and the bytes not yet
\* read from its reader (all of its content on the first Do after it was
\* attached, nothing on a later one), and one field part per accumulated form
\* field, whatever the order of the calls and the kinds of file combined
C14_MultipartPartsUnread ==
    [][SentMultipart(last') =>
        LET Unread == [f \in DOMAIN rb.files |->
                          IF rb.files[f].Reader.read THEN <<>> ELSE rb.files[f].Reader.data]
        IN  \E b \in Boundaries :
                last'.req.body = <<"multipart", b, FileParts(rb.files, Unread), rb.formFields>>]_vars

\* C14 witness: a file from disk under f1 and bytes from memory under f2 went
\* out in one request with the form field k1, the Form call having come last
C14_Witness ==
    /\ SentMultipart(last)
    /\ lastMode = "form"
    /\ \E b \in Boundaries :
        last.req.body = <<"multipart", b,
                          {<<"f1", "a.txt", <<"disk">>>>, <<"f2", "b.txt", <<"mem">>>>},
                          [k \in {"k1"} |-> "v1"]>>

\* the pair p is in the query q
InQuery(p, q) == \E i \in DOMAIN q : q[i] = p

\* C15 as stated: the query sent has every accumulated parameter (one value
\* per key after Param and Params, a value more after each ParamsValues);
\* with no parameter accumulated it is the query of the URL, unchanged, and
\* with one or more the query of the URL is kept alongside them
C15_QueryHasAllParams ==
    last.sent =>
        LET q == last.req.url.RawQuery
            own == UrlParse(rb.url).RawQuery
        IN  /\ \A k \in DOMAIN rb.params : \A j \in DOMAIN rb.params[k] :
                    InQuery(<<k, rb.params[k][j]>>, q)
            /\ DOMAIN rb.params = {} => q = own
            /\ DOMAIN rb.params # {} => \A i \in DOMAIN own : InQuery(own[i], q)

\* both body flags of the builder are set
BothFlags(b) == b.isJSON /\ b.isMultipart

\* C16 as stated: in every state of the builder that setter calls can reach,
\* isJSON and isMultipart are not both true
C16_FlagsExclusive == ~BothFlags(rb)

\* C16 as amended: isJSON and isMultipart become both true only by IsJSON()
\* on a builder whose isMultipart is set, IsJSON changing nothing but isJSON;
\* a call that sets a body or attaches a file leaves at most one of them true
C16_FlagsExclusiveButIsJSON ==
    [][ /\ (BothFlags(rb') /\ ~BothFlags(rb)) =>
                rb.isMultipart /\ rb' = [rb EXCEPT !.isJSON = TRUE]
        /\ (~last'.called /\ (rb'.body # rb.body \/ rb'.files # rb.files)) =>
                ~BothFlags(rb') ]_vars

\* C16 witness: IsJSON() was the last body call on a builder with a file
\* attached, and both flags are true
C16_Witness ==
    /\ BothFlags(rb)
    /\ lastMode = "json"
    /\ DOMAIN rb.files # {}

\* a header map with the boundary taken off a multipart Content-Type
NoBoundary(h) ==
    [k \in DOMAIN h |-> IF h[k][1] = "multipart/form-data" THEN <<h[k][1]>> ELSE h[k]]

\* the requests a and b agree on method, URL with its query, body mode and
\* headers, the multipart boundary left aside
SameEnvelope(a, b) ==
    /\ a.method = b.method
    /\ a.url = b.url
    /\ a.mode = b.mode
    /\ NoBoundary(a.header) = NoBoundary(b.header)

\* the requests a and b carry the same body bytes, the boundary left aside
SameBody(a, b) ==
    IF a.mode = "multipart" /\ b.mode = "multipart"
    THEN a.body[3] = b.body[3] /\ a.body[4] = b.body[4]
    ELSE a.body = b.body

\* C17 as stated: a Do that follows a Do with no other call between them
\* sends what the first one sent: the same method, URL, query, headers (the
\* multipart boundary apart) and the same body bytes, in every body mode
C17_DoRepeatable ==
    prev.sent =>
        /\ last.sent
        /\ SameEnvelope(prev.req, last.req)
        /\ SameBody(prev.req, last.req)

\* C17 as amended: the second Do sends the same method, URL, query, headers
\* (the boundary apart) and body mode, and the same body bytes in form mode
\* or with no body; in raw and JSON mode its body is empty once the client
\* has read the first one; in multipart mode it sends the same parts with
\* empty file contents, or fails without sending when a file came from disk
C17_DoRepeatableInFormMode ==
    prev.sent =>
        IF last.sent
        THEN /\ SameEnvelope(prev.req, last.req)
             /\ last.req.mode = "form" => SameBody(prev.req, last.req)
             /\ last.req.mode \in {"raw", "json"} =>
                    /\ last.req.body \in {prev.req.body, <<>>}
                    /\ prev.resp = "Response" => last.req.body = <<>>
             /\ last.req.mode = "multipart" =>
                    /\ last.req.body[3] = {<<p[1], p[2], <<>>>> : p \in prev.req.body[3]}
                    /\ last.req.body[4] = prev.req.body[4]
                    /\ \A f \in DOMAIN rb.files : rb.files[f].Reader.kind # "file"
        ELSE /\ last.err = "error"
             /\ prev.req.mode = "multipart"
             /\ \E f \in DOMAIN rb.files : rb.files[f].Reader.kind = "file"

\* C17 witness: two Do calls in a row on a builder in JSON mode; the first
\* sent the marshalled value and got a Response, the second sent no body
C17_Witness ==
    /\ prev.sent /\ last.sent
    /\ prev.req.mode = "json" /\ last.req.mode = "json"
    /\ prev.req.body = Marshal("j1")
    /\ prev.resp = "Response"
    /\ last.req.body = <<>>

\* C18 as stated: ToFile(filename) writes to the file its argument names the
\* bytes Bytes returns for the Response, or returns the recorded read error
\* and writes nothing, whether or not a body accessor ran before it
C18_ToFileWritesBytes ==
    \A p \in Callers :
        (tf[p].returned /\ tf[p].err # ErrWriteFile) =>
            IF tf[p].err = Nil
            THEN /\ tf[p].filename \in DOMAIN fs
                 /\ Cached => (r.readErr = Nil /\ fs[tf[p].filename] = r.body)
            ELSE /\ ~tf[p].wrote
                 /\ Cached => tf[p].err = r.readErr

====
